---- MODULE Spec2Model ----
(***************************************************************************)
(* Model of the literature-screening application (app/main.py): the        *)
(* partitioners get_group_article_ids and get_group_scale_article_ids, the *)
(* AppConfig year threshold, the ScreeningDecision store with              *)
(* submit_screen and resolve_conflict, the conflict detector               *)
(* check_group_status and the conflicts page, the progress pages and       *)
(* exports, and the SecondaryReview store.                                 *)
(***************************************************************************)
EXTENDS Integers, Sequences, FiniteSets, TLC

VARIABLES
    articles,   \* the Article table, as the sequence of rows a SELECT returns
    cfg,        \* the AppConfig table: NoCfg, or the row with id 1
    decisions,  \* the ScreeningDecision table: (user_id, article_id) -> its rows, in id order
    ret,        \* what the last call or request returned
    nreq,       \* number of requests handled so far
    workers,    \* the position of each request being handled step by step
    usernames,  \* the User table: user id -> username
    scale_articles,     \* the ScaleArticle table, rows in id order
    secondary_reviews   \* the SecondaryReview table: (pmid, group, reviewer_id) -> its rows

vars == <<articles, cfg, decisions, ret, nreq, workers, usernames,
          scale_articles, secondary_reviews>>

-----------------------------------------------------------------------------
(* Optional[...] values: None, or a value wrapped as Some(v).               *)

None == <<>>

Some(v) == <<v>>

\* Python's "x or d" on an Optional[str] / Optional[int]: d when x is None
\* or falsy ("" or 0), else x.
OrElse(x, d) == IF x = None \/ x[1] = d THEN d ELSE x[1]

-----------------------------------------------------------------------------
(* Program constants.                                                       *)

N_GROUPS == 4

DefaultYearMin == 2015

-----------------------------------------------------------------------------
(* Bounds of the model.                                                     *)

\* largest Article table the partitioner is applied to in SpecPartition
MaxArticles == 5

\* number of writing requests (submit_screen, resolve_conflict, settings)
\* handled in a behaviour of Spec
MaxRequests == 3

\* number of submit_screen requests handled in a behaviour of SpecRace
MaxRaceRequests == 2

\* number of writing requests handled in a behaviour of SpecReports
MaxReportRequests == 2

\* number of writing requests handled in a behaviour of SpecConflicts
MaxConflictRequests == 3

\* largest ScaleArticle table get_group_scale_article_ids is applied to in
\* SpecScale
MaxScaleArticles == 4

\* number of secondary-review requests and script runs handled in a
\* behaviour of SpecSecondary
MaxSecondaryRequests == 3

\* number of resolve_conflict requests handled in a behaviour of SpecResolve
MaxResolveRequests == 2

-----------------------------------------------------------------------------
(* The author strings used, with Python's str ordering on them              *)
(* ("" < "Abe" < "Ito" < "Sato").                                           *)

AuthorRank == ("" :> 0) @@ ("Abe" :> 1) @@ ("Ito" :> 2) @@ ("Sato" :> 3)

\* a faulty variant of SortKey: the authors left out of the key
SortKeyIgnoringAuthors(r) == <<"", OrElse(r.pmid, 0)>>

\* the sort key of get_group_article_ids: (authors or "", pmid or 0)
SortKey(r) == <<OrElse(r.authors, ""), OrElse(r.pmid, 0)>>

\* Python's tuple comparison k1 < k2 on two sort keys
KeyLess(k1, k2) ==
    \/ AuthorRank[k1[1]] < AuthorRank[k2[1]]
    \/ (k1[1] = k2[1] /\ k1[2] < k2[2])

\* one insertion of a stable sort: r goes behind every row whose key is
\* not greater than its own
RECURSIVE InsertByKey(_, _)
InsertByKey(sorted, r) ==
    IF sorted = <<>> THEN <<r>>
    ELSE IF KeyLess(SortKey(r), SortKey(Head(sorted)))
         THEN <<r>> \o sorted
         ELSE <<Head(sorted)>> \o InsertByKey(Tail(sorted), r)

\* rows.sort(key=...): Python's sort is stable, rows with equal keys keep
\* the order in which the store returned them
RECURSIVE SortRows(_)
SortRows(rows) ==
    IF rows = <<>> THEN <<>>
    ELSE InsertByKey(SortRows(SubSeq(rows, 1, Len(rows) - 1)), rows[Len(rows)])

\* r[3] is not None and r[3] >= year_min
YearOk(r, year_min) == r.year # None /\ r.year[1] >= year_min[1]

\* a faulty variant of SurvivingRows: no fallback when the filter leaves
\* no row
SurvivingRowsNoFallback(all_rows, year_min) ==
    IF year_min # None
    THEN SelectSeq(all_rows, LAMBDA r : YearOk(r, year_min))
    ELSE all_rows

\* the rows that are partitioned: the year filter, falling back to all rows
\* when it leaves none
SurvivingRows(all_rows, year_min) ==
    LET filtered == SelectSeq(all_rows, LAMBDA r : YearOk(r, year_min))
    IN  IF year_min # None /\ filtered # <<>> THEN filtered ELSE all_rows

\* a faulty variant of GroupOf: chunks of ceil(n / N_GROUPS) rows
GroupOfChunked(i, n) == i \div ((n + N_GROUPS - 1) \div N_GROUPS) + 1

\* a faulty variant of GroupOf: the "+ 1" forgotten, groups numbered from 0
GroupOfZeroBased(i, n) == (i * N_GROUPS) \div n

\* a faulty variant of GroupOf: the rows dealt out in turn
GroupOfRoundRobin(i, n) == (i % N_GROUPS) + 1

\* group of the row at 0-indexed position i of n sorted rows
GroupOf(i, n) == (i * N_GROUPS) \div n + 1

\* the loop over enumerate(rows): the ids of the rows whose position maps
\* to group g, in order
GroupSlice(rows, g) ==
    LET n == Len(rows)
        members == {i \in 1..n : GroupOf(i - 1, n) = g}
        RECURSIVE Take(_)
        Take(i) == IF i > n THEN <<>>
                   ELSE IF i \in members THEN <<rows[i].id>> \o Take(i + 1)
                   ELSE Take(i + 1)
    IN  Take(1)

\* the rows of get_group_article_ids after the filter and the sort
PartitionedRows(all_rows, year_min) ==
    SortRows(SurvivingRows(all_rows, year_min))

\* a faulty variant of GroupLists: the chunk size len(rows) // N_GROUPS is
\* taken as a divisor before the rows are looked at, so an empty table
\* ends in ZeroDivisionError, and so does one of fewer than N_GROUPS rows
GroupListsDividing(all_rows, year_min) ==
    LET rows == PartitionedRows(all_rows, year_min)
    IN  [g \in 1..N_GROUPS |->
            IF Len(rows) \div N_GROUPS = 0 THEN <<"ZeroDivisionError">>
            ELSE GroupSlice(rows, g)]

\* get_group_article_ids for every group number on the same all_rows (the
\* filter and the sort do not depend on the group number)
GroupLists(all_rows, year_min) ==
    LET rows == PartitionedRows(all_rows, year_min)
    IN  [g \in 1..N_GROUPS |->
            IF all_rows = <<>> THEN <<>> ELSE GroupSlice(rows, g)]

\* get_group_article_ids(session, year_min, user_group_no), all_rows being
\* what the SELECT on Article returned
GetGroupArticleIds(all_rows, year_min, g) == GroupLists(all_rows, year_min)[g]

Reverse(seq) == [i \in 1..Len(seq) |-> seq[Len(seq) + 1 - i]]

\* The SELECT on Article has no ORDER BY, so the order of all_rows is the
\* store's choice at each call; the model lets it choose between the
\* table's order and the reverse.
StoreOrders(table) == {table, Reverse(table)}

-----------------------------------------------------------------------------
(* The state outside the Article table.                                     *)

NoCfg == [present |-> FALSE]

NoRet == [op |-> "none"]

\* the users created by ensure_default_users that the model keeps: user1
\* (group 1, admin), user2 (group 1), user3 (group 2)
Users == {1, 2, 3}

UserGroup == (1 :> 1) @@ (2 :> 1) @@ (3 :> 2)

UserIsAdmin == (1 :> TRUE) @@ (2 :> FALSE) @@ (3 :> FALSE)

\* the (pmid, group, reviewer_id) triples of the SecondaryReview rows that
\* requests name
SecondaryKeys == {101} \X {"physical"} \X Users

NoSecondaryReviews == [k \in SecondaryKeys |-> <<>>]

\* the usernames given by ensure_default_users
DefaultUsernames == (1 :> "user1") @@ (2 :> "user2") @@ (3 :> "user3")

\* the article ids that requests name
TargetIds == {2, 5}

Pairs == Users \X TargetIds

NoWorkers == [w \in {1, 2} |-> [pc |-> "idle"]]

\* the decision codes: 0 exclude, 1 adopt, 2 hold
Codes == {0, 1, 2}

-----------------------------------------------------------------------------
(* AppConfig: get_year_min and set_year_min.                                *)

\* what get_year_min returns
YearMinOf(c) == IF c.present THEN c.year_min ELSE Some(DefaultYearMin)

\* a faulty variant: get_year_min writes the default over the stored value
CfgAfterGetReset(c) == [present |-> TRUE, year_min |-> Some(DefaultYearMin)]

\* the AppConfig table after get_year_min: the row is created on first read
CfgAfterGet(c) ==
    IF c.present THEN c ELSE [present |-> TRUE, year_min |-> Some(DefaultYearMin)]

\* the AppConfig table after set_year_min(year_min)
CfgAfterSet(c, year_min) == [present |-> TRUE, year_min |-> year_min]

-----------------------------------------------------------------------------
(* The ScreeningDecision table.  A row is kept under its (user_id,          *)
(* article_id); the rows of one pair are in the order of their ids.         *)

\* the form fields of submit_screen besides the decision, as posted
FormMetas ==
    { [comment |-> "", flag_cause |-> FALSE, flag_treatment |-> FALSE,
       cat_physical |-> FALSE, cat_brain |-> FALSE,
       cat_psycho |-> FALSE, cat_drug |-> FALSE],
      [comment |-> "see abstract", flag_cause |-> TRUE, flag_treatment |-> FALSE,
       cat_physical |-> TRUE, cat_brain |-> FALSE,
       cat_psycho |-> FALSE, cat_drug |-> TRUE] }

\* decision: Optional[int] = Form(None)
FormDecisions == {None} \cup {Some(d) : d \in Codes}

Form(d, m) ==
    [decision |-> d, comment |-> m.comment,
     flag_cause |-> m.flag_cause, flag_treatment |-> m.flag_treatment,
     cat_physical |-> m.cat_physical, cat_brain |-> m.cat_brain,
     cat_psycho |-> m.cat_psycho, cat_drug |-> m.cat_drug]

Forms == {Form(d, m) : d \in FormDecisions, m \in FormMetas}

\* the INSERT of submit_screen
InsertedRow(f) == f

\* a faulty variant: the UPDATE sets decision also when the form omits it
UpdatedRowClearing(row, f) == f

\* the UPDATE of submit_screen: decision only when the form carries one,
\* every other column always
UpdatedRow(row, f) ==
    [f EXCEPT !.decision = IF f.decision # None THEN f.decision ELSE row.decision]

\* the choices of "SELECT id ... .first()" over the rows of the pair: the
\* index of a row, or 0 when there is none
ExistingChoices(rows) == IF rows = <<>> THEN {0} ELSE 1..Len(rows)

\* a faulty variant of WrittenRows: the row is inserted without looking
\* for an existing one
WrittenRowsAlwaysInsert(rows, existing, f) ==
    IF f.decision # None THEN Append(rows, InsertedRow(f)) ELSE rows

\* a faulty variant of WrittenRows: the INSERT is made also when the form
\* carries no decision
WrittenRowsInsertingNull(rows, existing, f) ==
    IF existing # 0
    THEN [rows EXCEPT ![existing] = UpdatedRow(@, f)]
    ELSE Append(rows, InsertedRow(f))

\* the rows of the pair after the write of submit_screen, existing being
\* what its SELECT found
WrittenRows(rows, existing, f) ==
    IF existing # 0
    THEN [rows EXCEPT ![existing] = UpdatedRow(@, f)]
    ELSE IF f.decision # None THEN Append(rows, InsertedRow(f)) ELSE rows

\* a faulty variant: the write replaces every row of the record, of
\* whatever reviewer, by the submitted one
StoreWrittenDeleteInsert(store, u, article_id, existing, f) ==
    [p \in DOMAIN store |->
        IF p = <<u, article_id>> THEN WrittenRows(store[p], existing, f)
        ELSE IF p[2] = article_id /\ f.decision # None THEN <<>>
        ELSE store[p]]

\* the ScreeningDecision table after the write of submit_screen by user u
\* for article_id: UPDATE ... WHERE id = :id touches one row of the pair,
\* INSERT adds a row of the pair
StoreWritten(store, u, article_id, existing, f) ==
    [store EXCEPT ![<<u, article_id>>] = WrittenRows(@, existing, f)]

\* a faulty variant of Resolved: a row holding the resolution is also
\* created for every user who has none for the article
ResolvedCreatingRows(store, article_id, resolution) ==
    [p \in DOMAIN store |->
        IF p[2] # article_id THEN store[p]
        ELSE IF store[p] = <<>>
             THEN <<[decision |-> Some(resolution), comment |-> "",
                     flag_cause |-> FALSE, flag_treatment |-> FALSE,
                     cat_physical |-> FALSE, cat_brain |-> FALSE,
                     cat_psycho |-> FALSE, cat_drug |-> FALSE]>>
             ELSE [i \in 1..Len(store[p]) |->
                      [store[p][i] EXCEPT !.decision = Some(resolution)]]]

\* a faulty variant of Resolved: the resolution is added as a new row of
\* each user who has one, instead of overwriting it
ResolvedByInsert(store, article_id, resolution) ==
    [p \in DOMAIN store |->
        IF p[2] # article_id \/ store[p] = <<>> THEN store[p]
        ELSE Append(store[p],
                    [store[p][Len(store[p])] EXCEPT !.decision = Some(resolution)])]

\* a faulty variant of Resolved: only the rows of the first user who has
\* any for the article are overwritten
ResolvedFirstUserOnly(store, article_id, resolution) ==
    [p \in DOMAIN store |->
        IF p[2] # article_id
           \/ \E q \in DOMAIN store :
                  q[2] = article_id /\ q[1] < p[1] /\ store[q] # <<>>
        THEN store[p]
        ELSE [i \in 1..Len(store[p]) |->
                 [store[p][i] EXCEPT !.decision = Some(resolution)]]]

\* the table after resolve_conflict: d.decision = resolution for every row
\* of the article
Resolved(store, article_id, resolution) ==
    [p \in DOMAIN store |->
        IF p[2] # article_id THEN store[p]
        ELSE [i \in 1..Len(store[p]) |->
                 [store[p][i] EXCEPT !.decision = Some(resolution)]]]

-----------------------------------------------------------------------------
(* check_group_status (mode "disease").                                     *)

\* the rows of a (user_id, article_id); articles that no request names
\* have none
RowsOf(store, u, a) == IF <<u, a>> \in DOMAIN store THEN store[<<u, a>>] ELSE <<>>

\* the rows of the pair with "dec is not None"
NonNullRows(store, u, a) ==
    SelectSeq(RowsOf(store, u, a), LAMBDA row : row.decision # None)

\* uid in decision_map[aid]
InDecisionMap(store, u, a) == NonNullRows(store, u, a) # <<>>

\* decision_map[aid][uid]: a later row of the pair overwrites an earlier one
DecisionMapAt(store, u, a) ==
    LET rows == NonNullRows(store, u, a) IN rows[Len(rows)].decision[1]

\* list(votes.values()) of decision_map[aid], as a set: the votes of every
\* user who has one, member of the group or not
VoteValues(store, a) ==
    {DecisionMapAt(store, u, a) : u \in {v \in Users : InDecisionMap(store, v, a)}}

\* a faulty variant of AllUsersDone: one finished user is enough
SomeUserDone(store, group_users, article_ids) ==
    \E u \in group_users :
        \A i \in 1..Len(article_ids) : InDecisionMap(store, u, article_ids[i])

\* the completion loop: no user of the group has user_done_count below
\* total_articles
AllUsersDone(store, group_users, article_ids) ==
    \A u \in group_users :
        Cardinality({i \in 1..Len(article_ids) :
                        InDecisionMap(store, u, article_ids[i])})
            >= Len(article_ids)

\* a faulty variant of VotesConflict: a hold does not suppress the conflict
VotesConflictIgnoringHold(vals) == 1 \in vals /\ 0 \in vals

\* not has_2, and has_1 and has_0
VotesConflict(vals) == 2 \notin vals /\ 1 \in vals /\ 0 \in vals

\* a faulty variant of CheckGroupStatus: without the return on
\* total_articles == 0 the completion loop passes over an empty list
CheckGroupStatusNoEmptyGuard(store, c, all_rows, group_no) ==
    LET group_users == {u \in Users : UserGroup[u] = group_no}
        article_ids == GetGroupArticleIds(all_rows, YearMinOf(c), group_no)
    IN  IF group_users = {} THEN <<FALSE, FALSE>>
        ELSE IF ~AllUsersDone(store, group_users, article_ids) THEN <<FALSE, FALSE>>
        ELSE <<TRUE, \E i \in 1..Len(article_ids) :
                        VotesConflict(VoteValues(store, article_ids[i]))>>

\* a faulty variant of CheckGroupStatus: the conflict rule looks at the
\* votes of the users of the group only
CheckGroupStatusMembersOnly(store, c, all_rows, group_no) ==
    LET group_users == {u \in Users : UserGroup[u] = group_no}
        article_ids == GetGroupArticleIds(all_rows, YearMinOf(c), group_no)
        member_vals(a) ==
            {DecisionMapAt(store, u, a) :
                u \in {v \in group_users : InDecisionMap(store, v, a)}}
    IN  IF group_users = {} THEN <<FALSE, FALSE>>
        ELSE IF Len(article_ids) = 0 THEN <<FALSE, FALSE>>
        ELSE IF ~AllUsersDone(store, group_users, article_ids) THEN <<FALSE, FALSE>>
        ELSE <<TRUE, \E i \in 1..Len(article_ids) :
                        VotesConflict(member_vals(article_ids[i]))>>

\* check_group_status(session, group_no, "disease"): <<is_complete,
\* has_conflicts>>; c is the AppConfig table and all_rows the Article rows
CheckGroupStatus(store, c, all_rows, group_no) ==
    LET group_users == {u \in Users : UserGroup[u] = group_no}
        article_ids == GetGroupArticleIds(all_rows, YearMinOf(c), group_no)
    IN  IF group_users = {} THEN <<FALSE, FALSE>>
        ELSE IF Len(article_ids) = 0 THEN <<FALSE, FALSE>>
        ELSE IF ~AllUsersDone(store, group_users, article_ids) THEN <<FALSE, FALSE>>
        ELSE <<TRUE, \E i \in 1..Len(article_ids) :
                        VotesConflict(VoteValues(store, article_ids[i]))>>

-----------------------------------------------------------------------------
(* Spec: the requests, each handled as one step.                            *)

\* the Article table of Spec: five rows with distinct sort keys, sorted
\* as 2, 5, 3, 1, 4.  Row 3 fails the default threshold 2015 and rows 3
\* and 5 fail 2021.
Corpus ==
    << [id |-> 1, authors |-> Some("Ito"),  pmid |-> Some(13), year |-> Some(2022)],
       [id |-> 2, authors |-> None,         pmid |-> Some(12), year |-> Some(2022)],
       [id |-> 3, authors |-> Some("Abe"),  pmid |-> Some(17), year |-> Some(2010)],
       [id |-> 4, authors |-> Some("Sato"), pmid |-> None,     year |-> Some(2022)],
       [id |-> 5, authors |-> Some("Abe"),  pmid |-> Some(11), year |-> Some(2018)] >>

\* the thresholds posted to /settings
SettingsYearMins == {None, Some(2021)}

Init ==
    /\ articles = Corpus
    /\ cfg = NoCfg
    /\ decisions = [p \in Pairs |-> <<>>]
    /\ ret = NoRet
    /\ nreq = 0
    /\ workers = NoWorkers
    /\ usernames = DefaultUsernames
    /\ scale_articles = <<>>
    /\ secondary_reviews = NoSecondaryReviews

\* POST /screen by user u for article_id with form f, as one step
SubmitScreen(u, article_id, f) ==
    /\ nreq < MaxRequests
    /\ \E existing \in ExistingChoices(decisions[<<u, article_id>>]) :
         /\ decisions' = StoreWritten(decisions, u, article_id, existing, f)
         /\ ret' = [op |-> "submit_screen", existing |-> existing # 0]
    /\ cfg' = CfgAfterGet(cfg)
    /\ nreq' = nreq + 1
    /\ UNCHANGED <<scale_articles, secondary_reviews, usernames, articles, workers>>

\* POST /resolve_conflict (mode "disease") by any logged-in user
ResolveConflict(article_id, resolution) ==
    /\ nreq < MaxRequests
    /\ decisions' = Resolved(decisions, article_id, resolution)
    /\ ret' = [op |-> "resolve_conflict", article_id |-> article_id,
               resolution |-> resolution]
    /\ nreq' = nreq + 1
    /\ UNCHANGED <<scale_articles, secondary_reviews, usernames, articles, cfg, workers>>

\* POST /settings by user u: set_year_min when u is an admin
SettingsSubmit(u, year_min) ==
    /\ nreq < MaxRequests
    /\ UserIsAdmin[u]
    /\ cfg' = CfgAfterSet(cfg, year_min)
    /\ ret' = [op |-> "settings_submit", year_min |-> year_min]
    /\ nreq' = nreq + 1
    /\ UNCHANGED <<scale_articles, secondary_reviews, usernames, articles, decisions, workers>>

\* a call check_group_status(session, group_no, "disease"); get_year_min
\* is reached only when the group has users
CallCheckGroupStatus(group_no) ==
    /\ ret' = [op |-> "check_group_status", group_no |-> group_no,
               val |-> CheckGroupStatus(decisions, cfg, articles, group_no)]
    /\ cfg' = IF \E u \in Users : UserGroup[u] = group_no
              THEN CfgAfterGet(cfg) ELSE cfg
    /\ UNCHANGED <<scale_articles, secondary_reviews, usernames, articles, decisions, nreq, workers>>

Next ==
    \/ \E u \in Users, article_id \in TargetIds, f \in Forms :
           SubmitScreen(u, article_id, f)
    \/ \E article_id \in TargetIds, resolution \in Codes :
           ResolveConflict(article_id, resolution)
    \/ \E u \in Users, year_min \in SettingsYearMins :
           SettingsSubmit(u, year_min)
    \/ \E group_no \in 1..N_GROUPS : CallCheckGroupStatus(group_no)

Spec == Init /\ [][Next]_vars

-----------------------------------------------------------------------------
(* Properties of the decision store and of check_group_status, checked      *)
(* under Spec.                                                              *)

\* the users whose group_no is g
Reviewers(g) == {u \in Users : UserGroup[u] = g}

\* the ids assigned to group g under the current threshold
AssignedIds(g) ==
    LET ids == GetGroupArticleIds(articles, YearMinOf(cfg), g)
    IN  {ids[i] : i \in 1..Len(ids)}

\* user u has a row with a non-null decision for article a
HasDecision(u, a) ==
    \E i \in 1..Len(RowsOf(decisions, u, a)) :
        RowsOf(decisions, u, a)[i].decision # None

\* the codes submitted for article a, by anyone
SubmittedCodes(a) ==
    UNION { {RowsOf(decisions, u, a)[i].decision[1] :
                i \in {j \in 1..Len(RowsOf(decisions, u, a)) :
                           RowsOf(decisions, u, a)[j].decision # None}} :
            u \in Users }

\* article a holds an adopt/exclude split with no hold
IsSplit(a) ==
    /\ 2 \notin SubmittedCodes(a)
    /\ 1 \in SubmittedCodes(a)
    /\ 0 \in SubmittedCodes(a)

\* some reviewer of group g lacks a decision on a record assigned to g
SomeoneUnfinished(g) ==
    \E u \in Reviewers(g), a \in AssignedIds(g) : ~HasDecision(u, a)

IsStatusCall == ret.op = "check_group_status"

\* C5: check_group_status(g) returns (False, False) whenever a reviewer of
\* g lacks a non-null decision on a record assigned to g, whatever the
\* other decisions are.
C5_CompletionGate ==
    (IsStatusCall /\ SomeoneUnfinished(ret.group_no))
        => ret.val = <<FALSE, FALSE>>

\* C5 witness: the call returned (False, False) for a group with an
\* unfinished reviewer while an assigned record holds an adopt/exclude
\* split.
C5_Witness ==
    /\ IsStatusCall
    /\ SomeoneUnfinished(ret.group_no)
    /\ \E a \in AssignedIds(ret.group_no) : IsSplit(a)
    /\ ret.val = <<FALSE, FALSE>>

\* C6: for a group with reviewers and assigned records, all reviewers
\* having decided every assigned record, check_group_status returns
\* (True, c), c being true exactly when an assigned record has an adopt
\* and an exclude and no hold among its submitted codes.
C6_ConflictRule ==
    ( /\ IsStatusCall
      /\ Reviewers(ret.group_no) # {}
      /\ AssignedIds(ret.group_no) # {}
      /\ ~SomeoneUnfinished(ret.group_no) )
    => ret.val = <<TRUE, \E a \in AssignedIds(ret.group_no) : IsSplit(a)>>

\* C6 witness: the call returned (True, False) for a complete group with
\* a record whose codes are adopt, exclude and hold.
C6_Witness ==
    /\ IsStatusCall
    /\ ret.val = <<TRUE, FALSE>>
    /\ \E a \in AssignedIds(ret.group_no) : SubmittedCodes(a) = {0, 1, 2}

\* C7: resolve_conflict(record, code) sets the decision of every row of
\* the record to code and changes nothing else: no row is added or
\* removed, the other columns and the rows of other records keep their
\* values, and so do the configuration and the articles.
C7_ResolveFrame ==
    [][ ret'.op = "resolve_conflict" =>
          /\ \A p \in Pairs :
                /\ Len(decisions'[p]) = Len(decisions[p])
                /\ \A i \in 1..Len(decisions[p]) :
                      decisions'[p][i] =
                          IF p[2] = ret'.article_id
                          THEN [decisions[p][i] EXCEPT
                                   !.decision = Some(ret'.resolution)]
                          ELSE decisions[p][i]
          /\ cfg' = cfg
          /\ articles' = articles ]_vars

\* C7 witness: a resolve_conflict has run on a record with rows of two
\* users that differ in their comments, a third user having none.
C7_Witness ==
    /\ ret.op = "resolve_conflict"
    /\ \E u1, u2, u3 \in Users :
          /\ Len(decisions[<<u1, ret.article_id>>]) = 1
          /\ Len(decisions[<<u2, ret.article_id>>]) = 1
          /\ decisions[<<u1, ret.article_id>>][1].comment
                # decisions[<<u2, ret.article_id>>][1].comment
          /\ decisions[<<u1, ret.article_id>>][1].decision = Some(ret.resolution)
          /\ decisions[<<u2, ret.article_id>>][1].decision = Some(ret.resolution)
          /\ decisions[<<u3, ret.article_id>>] = <<>>

\* C8: resolving a record with a code twice in a row leaves the store as
\* resolving it once does, from every store.
C8_ResolveIdempotent ==
    \A a \in TargetIds, x \in Codes :
        Resolved(Resolved(decisions, a, x), a, x) = Resolved(decisions, a, x)

\* C8 witness: a resolve_conflict has run on a record that has rows of two
\* users.
C8_Witness ==
    /\ ret.op = "resolve_conflict"
    /\ \E u1, u2 \in Users :
          /\ u1 # u2
          /\ decisions[<<u1, ret.article_id>>] # <<>>
          /\ decisions[<<u2, ret.article_id>>] # <<>>

\* C9: the store holds at most one row per (reviewer, record) after any
\* sequence of submit_screen, resolve_conflict and set_year_min requests
\* handled one at a time.
C9_OneRowPerPair == \A p \in Pairs : Len(decisions[p]) <= 1

\* C9 witness: a submit_screen found the row of its pair and updated it.
C9_Witness ==
    /\ ret.op = "submit_screen"
    /\ ret.existing
    /\ \E p \in Pairs : Len(decisions[p]) = 1

-----------------------------------------------------------------------------
(* SpecRace: submit_screen handled by two threads of the server, each in    *)
(* two steps, the SELECT of existing_id and the UPDATE or INSERT with its   *)
(* commit.  Nothing orders the steps of two requests: the table has no      *)
(* unique constraint on (user_id, article_id) and the handler takes no      *)
(* lock.                                                                    *)

\* the forms posted in SpecRace
RaceForms ==
    LET m == CHOOSE x \in FormMetas : x.comment = ""
        n == CHOOSE x \in FormMetas : x.comment # ""
    IN  {Form(Some(1), m), Form(Some(0), n), Form(None, n)}

\* submit_screen up to its SELECT of existing_id, on thread w
SubmitRead(w, u, article_id, f) ==
    /\ nreq < MaxRaceRequests
    /\ workers[w].pc = "idle"
    /\ \E existing \in ExistingChoices(decisions[<<u, article_id>>]) :
         workers' = [workers EXCEPT ![w] =
                        [pc |-> "write", user |-> u, article_id |-> article_id,
                         form |-> f, existing |-> existing, raced |-> FALSE,
                         seq |-> nreq + 1]]
    /\ cfg' = CfgAfterGet(cfg)
    /\ nreq' = nreq + 1
    /\ UNCHANGED <<scale_articles, secondary_reviews, usernames, articles, decisions, ret>>

\* the request of thread w is between its SELECT and its write, for the
\* pair (u, article_id)
InFlight(w, u, article_id) ==
    /\ workers[w].pc = "write"
    /\ workers[w].user = u
    /\ workers[w].article_id = article_id

\* the UPDATE or INSERT of submit_screen and its commit, on thread w.  A
\* request of the other thread for the same pair that is in flight is
\* marked as raced, and so is this one if it was marked.  seq numbers the
\* requests in the order of their SELECT.
SubmitWrite(w) ==
    /\ workers[w].pc = "write"
    /\ LET me == workers[w]
       IN  /\ decisions' = StoreWritten(decisions, me.user, me.article_id,
                                        me.existing, me.form)
           /\ ret' = [op |-> "submit_screen", existing |-> me.existing # 0,
                      user |-> me.user, article_id |-> me.article_id,
                      form |-> me.form, raced |-> me.raced, seq |-> me.seq,
                      wrote |-> (me.existing # 0 \/ me.form.decision # None)]
           /\ workers' = [v \in DOMAIN workers |->
                             IF v = w THEN [pc |-> "idle"]
                             ELSE IF InFlight(v, me.user, me.article_id)
                                  THEN [workers[v] EXCEPT !.raced = TRUE]
                                  ELSE workers[v]]
    /\ UNCHANGED <<scale_articles, secondary_reviews, usernames, articles, cfg, nreq>>

NextRace ==
    \/ \E w \in DOMAIN workers, u \in Users, article_id \in TargetIds,
           f \in RaceForms : SubmitRead(w, u, article_id, f)
    \/ \E w \in DOMAIN workers : SubmitWrite(w)
    \/ \E article_id \in TargetIds, resolution \in Codes :
           ResolveConflict(article_id, resolution)

SpecRace == Init /\ [][NextRace]_vars

\* C10: when two submit_screen requests of one reviewer for one record
\* overlap, the store ends with exactly one row for the pair, holding the
\* values of the request that wrote last (its comment and flags, and its
\* decision when it carries one).
C10_LastWriterWins ==
    (ret.op = "submit_screen" /\ ret.raced /\ ret.wrote)
        => LET rows == decisions[<<ret.user, ret.article_id>>]
           IN  /\ Len(rows) = 1
               /\ rows[1] = UpdatedRow(rows[1], ret.form)

\* C11: submit_screen requests for different (reviewer, record) pairs do
\* not interfere.  Every write step of a request leaves the rows of every
\* other pair unchanged, and when no request for the same pair wrote
\* between its SELECT and its write, the write gives the pair the rows an
\* atomic request would give it at that point; the outcome for a pair then
\* depends on the rows of that pair alone, so every interleaving of
\* requests for different pairs ends in the store of running them one
\* after the other in either order.
C11_NoInterference ==
    [][\A w \in DOMAIN workers :
          (workers[w].pc = "write" /\ workers'[w].pc = "idle")
              => LET me == workers[w]
                     p == <<me.user, me.article_id>>
                 IN  /\ \A q \in Pairs \ {p} : decisions'[q] = decisions[q]
                     /\ ~me.raced
                          => \E e \in ExistingChoices(decisions[p]) :
                                decisions'[p] =
                                    WrittenRows(decisions[p], e, me.form)]_vars

\* C11 witness: a request has inserted its row while an earlier request
\* for another pair, which will insert too, is between its SELECT and its
\* write.
C11_Witness ==
    /\ ret.op = "submit_screen"
    /\ ret.wrote
    /\ ~ret.raced
    /\ \E v \in DOMAIN workers :
          /\ workers[v].pc = "write"
          /\ workers[v].seq < ret.seq
          /\ <<workers[v].user, workers[v].article_id>>
                 # <<ret.user, ret.article_id>>
          /\ workers[v].form.decision # None

\* thread w takes its write step
IsWriteStep(w) == workers[w].pc = "write" /\ workers'[w].pc = "idle"

\* C12, as the code has it: a Decision row of a pair is created by the
\* reviewer's first submit_screen for the record that carries a decision
\* code (one that omits the code creates nothing), every later
\* submit_screen of the pair overwrites the comment and the flags of the
\* row and overwrites its code only when it carries one, no operation
\* deletes a row, and the code of a row never becomes null.
C12_RowLifecycle ==
    [][/\ \A p \in Pairs :
            /\ Len(decisions'[p]) >= Len(decisions[p])
            /\ Len(decisions'[p]) > Len(decisions[p])
                 => \E w \in DOMAIN workers :
                       /\ IsWriteStep(w)
                       /\ p = <<workers[w].user, workers[w].article_id>>
                       /\ workers[w].existing = 0
            /\ \A i \in 1..Len(decisions'[p]) :
                   decisions'[p][i].decision # None
       /\ \A w \in DOMAIN workers :
            IsWriteStep(w)
              => LET me == workers[w]
                     old == decisions[<<me.user, me.article_id>>]
                     new == decisions'[<<me.user, me.article_id>>]
                 IN  /\ me.existing = 0
                          => new = IF me.form.decision # None
                                   THEN Append(old, me.form) ELSE old
                     /\ me.existing # 0
                          => /\ Len(new) = Len(old)
                             /\ new[me.existing] =
                                  [me.form EXCEPT !.decision =
                                      IF me.form.decision # None
                                      THEN me.form.decision
                                      ELSE old[me.existing].decision]]_vars

\* C12 witness: a resubmission that omits the code has overwritten the
\* comment of the pair's row, and the row keeps its code.
C12_Witness ==
    /\ ret.op = "submit_screen"
    /\ ret.existing
    /\ ret.form.decision = None
    /\ LET rows == decisions[<<ret.user, ret.article_id>>]
       IN  /\ Len(rows) = 1
           /\ rows[1].comment = ret.form.comment
           /\ rows[1].decision = Some(1)

\* C12, as stated: the reviewer's first submit_screen for a record creates
\* the row of the pair, whether or not it carries a code, and no operation
\* deletes a row.
C12_CreatedOnFirstSubmission ==
    [][/\ \A p \in Pairs : Len(decisions'[p]) >= Len(decisions[p])
       /\ \A w \in DOMAIN workers :
            (IsWriteStep(w) /\ workers[w].existing = 0)
               => Len(decisions'[<<workers[w].user, workers[w].article_id>>])
                     = Len(decisions[<<workers[w].user,
                                       workers[w].article_id>>]) + 1]_vars

-----------------------------------------------------------------------------
(* The read side: progress pages and exports, as functions of the tables.   *)

\* the four category columns of ScreeningDecision
CatCols == {"cat_physical", "cat_brain", "cat_psycho", "cat_drug"}

\* sorted(ids): ascending
RECURSIVE InsertAsc(_, _)
InsertAsc(sorted, x) ==
    IF sorted = <<>> THEN <<x>>
    ELSE IF x < Head(sorted) THEN <<x>> \o sorted
    ELSE <<Head(sorted)>> \o InsertAsc(Tail(sorted), x)

\* a faulty variant: the ids are left in the order of the partition
SortAscKeepingOrder(ids) == ids

RECURSIVE SortAsc(_)
SortAsc(ids) ==
    IF ids = <<>> THEN <<>>
    ELSE InsertAsc(SortAsc(SubSeq(ids, 1, Len(ids) - 1)), ids[Len(ids)])

\* the Article row with the given id
ArticleById(all_rows, aid) ==
    LET hits == SelectSeq(all_rows, LAMBDA r : r.id = aid)
    IN  IF hits = <<>> THEN None ELSE Some(hits[1])

\* the rows of one article in the ScreeningDecision table, of all users
RECURSIVE RowsOfUsers(_, _, _)
RowsOfUsers(store, aid, us) ==
    IF us = {} THEN <<>>
    ELSE LET u == CHOOSE x \in us : \A y \in us : x <= y
         IN  RowsOf(store, u, aid) \o RowsOfUsers(store, aid, us \ {u})

\* export_aggregated_disease skips a row with no decision, no comment and
\* no category flag
IsEmptyRow(row) ==
    /\ row.decision = None
    /\ row.comment = ""
    /\ \A c \in CatCols : ~row[c]

\* art_map[aid] of export_aggregated_disease
ArtMapRows(store, aid) ==
    SelectSeq(RowsOfUsers(store, aid, Users), LAMBDA row : ~IsEmptyRow(row))

\* counts = {0: .., 1: .., 2: ..} over the rows of a record
Counts(rows) ==
    [k \in Codes |->
        Cardinality({i \in 1..Len(rows) : rows[i].decision = Some(k)})]

\* a faulty variant: among equal counts the smaller code wins
AggDecisionSmallerWins(counts) ==
    IF \E k \in Codes : counts[k] > 0
    THEN Some(CHOOSE k \in Codes :
                \A j \in Codes : \/ counts[j] < counts[k]
                                 \/ (counts[j] = counts[k] /\ j >= k))
    ELSE None

\* agg_decision = max(counts, key=lambda k: (counts[k], k)) when a count
\* is positive
AggDecision(counts) ==
    IF \E k \in Codes : counts[k] > 0
    THEN Some(CHOOSE k \in Codes :
                \A j \in Codes : \/ counts[j] < counts[k]
                                 \/ (counts[j] = counts[k] /\ j <= k))
    ELSE None

\* a faulty variant: final is 1 only when every row has the flag
AnalyzeCatUnanimous(rows, cat_name) ==
    LET votes == [i \in 1..Len(rows) |-> IF rows[i][cat_name] THEN 1 ELSE 0]
    IN  [final |-> IF votes # <<>> /\ \A i \in 1..Len(votes) : votes[i] = 1
                   THEN 1 ELSE 0,
         conflict |-> IF /\ \E i \in 1..Len(votes) : votes[i] = 1
                         /\ \E i \in 1..Len(votes) : votes[i] = 0
                      THEN 1 ELSE 0]

\* analyze_cat: final and conflict of one category over the rows
AnalyzeCat(rows, cat_name) ==
    LET votes == [i \in 1..Len(rows) |-> IF rows[i][cat_name] THEN 1 ELSE 0]
    IN  [final |-> IF votes # <<>> /\ \E i \in 1..Len(votes) : votes[i] >= 1
                   THEN 1 ELSE 0,
         conflict |-> IF /\ \E i \in 1..Len(votes) : votes[i] = 1
                         /\ \E i \in 1..Len(votes) : votes[i] = 0
                      THEN 1 ELSE 0]

\* one line of the CSV of export_aggregated_disease
AggregatedLine(store, all_rows, aid) ==
    LET rows == ArtMapRows(store, aid)
        counts == Counts(rows)
    IN  [article_id |-> aid,
         pmid |-> ArticleById(all_rows, aid)[1].pmid,
         aggregated_decision |-> AggDecision(counts),
         decision_counts |-> counts,
         cats |-> [c \in CatCols |-> AnalyzeCat(rows, c)]]

\* the lines of export_aggregated_disease for target_group
ExportAggregatedDisease(store, c, all_rows, target_group) ==
    LET article_ids == GetGroupArticleIds(all_rows, YearMinOf(c), target_group)
        ids == SortAsc(article_ids)
    IN  [i \in 1..Len(ids) |-> AggregatedLine(store, all_rows, ids[i])]

\* the number of rows of user u with a decision, over a set of articles
RECURSIVE DecidedRows(_, _, _)
DecidedRows(store, u, aids) ==
    IF aids = {} THEN 0
    ELSE LET a == CHOOSE x \in aids : TRUE
         IN  Len(NonNullRows(store, u, a)) + DecidedRows(store, u, aids \ {a})

\* a faulty variant: the rows are counted whatever their article
DoneCountAnyArticle(store, u, id_list) == DecidedRows(store, u, TargetIds)

\* SELECT count(id) WHERE user_id = u AND article_id IN id_list AND
\* decision IS NOT NULL
DoneCount(store, u, id_list) ==
    DecidedRows(store, u, {id_list[i] : i \in 1..Len(id_list)})

\* the progress values of my_index for view_user; the percentage goes
\* through int()
MyIndex(store, c, all_rows, view_user) ==
    LET id_list == GetGroupArticleIds(all_rows, YearMinOf(c),
                                      UserGroup[view_user])
        done_count == IF id_list # <<>> THEN DoneCount(store, view_user, id_list)
                      ELSE 0
    IN  [progress_done |-> done_count,
         progress_total |-> Len(id_list),
         progress_pct |-> IF id_list # <<>>
                          THEN (done_count * 100) \div Len(id_list) ELSE 0]

\* a percentage the code computes as a float quotient, kept as a fraction
Fraction(num, den) == [num |-> num, den |-> den]

\* (x / y * 100) if y else 0
PctOrZero(x, y) == IF y # 0 THEN Fraction(x * 100, y) ELSE Fraction(0, 1)

\* one entry of rows of dashboard
DashboardRow(store, c, all_rows, u) ==
    LET d_ids == GetGroupArticleIds(all_rows, YearMinOf(c), UserGroup[u])
        d_r == IF d_ids # <<>> THEN DoneCount(store, u, d_ids) ELSE 0
    IN  [id |-> u, group_no |-> UserGroup[u], dis_rated |-> d_r,
         dis_total |-> Len(d_ids), dis_pct |-> PctOrZero(d_r, Len(d_ids))]

\* the sum of a field over the entries of rows
RECURSIVE SumField(_, _, _)
SumField(rows, field, us) ==
    IF us = {} THEN 0
    ELSE LET u == CHOOSE x \in us : TRUE
         IN  rows[u][field] + SumField(rows, field, us \ {u})

\* the disease values of dashboard for the logged-in user u
Dashboard(store, c, all_rows, u) ==
    LET rows == [v \in Users |-> DashboardRow(store, c, all_rows, v)]
        o_d_t == SumField(rows, "dis_total", Users)
        o_d_r == SumField(rows, "dis_rated", Users)
        status == CheckGroupStatus(store, c, all_rows, UserGroup[u])
    IN  [rows |-> rows, overall_dis_total |-> o_d_t,
         overall_dis_rated |-> o_d_r,
         overall_dis_pct |-> PctOrZero(o_d_r, o_d_t),
         is_disease_complete |-> status[1],
         has_disease_conflicts |-> status[2]]

\* the values of settings_page: current_step is 2 when more than 98% of
\* the assigned decisions are made
SettingsPageValues(store, c, all_rows) ==
    LET rows == [v \in Users |-> DashboardRow(store, c, all_rows, v)]
        total_assigned == SumField(rows, "dis_total", Users)
        total_done == SumField(rows, "dis_rated", Users)
    IN  [year_min |-> YearMinOf(c),
         current_step |-> IF /\ total_assigned > 0
                             /\ total_done * 100 > 98 * total_assigned
                          THEN 2 ELSE 1]

\* a faulty variant: only an incomplete group is refused
ExportRefusedOnlyIncomplete(status) == ~status[1]

\* export_secondary_candidates_txt: not is_complete or has_conflicts
ExportRefused(status) == ~status[1] \/ status[2]

\* the ids exported when group_no is omitted: the year filter with its
\* fallback, in the order of the rows
AllGroupsArticleIds(all_rows, year_min) ==
    LET filtered == SelectSeq(all_rows, LAMBDA r : YearOk(r, year_min))
        rows == IF year_min # None
                THEN (IF filtered = <<>> THEN all_rows ELSE filtered)
                ELSE all_rows
    IN  [i \in 1..Len(rows) |-> rows[i].id]

\* Article.final_decision: no request handler writes the column
FinalDecision(r) == None

\* `if pmid`
Truthy(pmid) == pmid # None /\ pmid[1] # 0

\* pmids of export_secondary_candidates_txt (mode "disease"), from
\* Article.final_decision when the article table has the column and else
\* from the largest decision among the rows of each record
CandidatePmids(store, all_rows, article_ids, has_final_decision) ==
    LET ids == {article_ids[i] : i \in 1..Len(article_ids)}
        arts == {all_rows[i] : i \in {j \in 1..Len(all_rows) :
                                         all_rows[j].id \in ids}}
        use_final == article_ids # <<>> /\ has_final_decision
        decs(aid) == LET rows == RowsOfUsers(store, aid, Users)
                     IN  {rows[i].decision[1] :
                            i \in {j \in 1..Len(rows) : rows[j].decision # None}}
    IN  IF use_final
        THEN {r.pmid[1] : r \in {x \in arts : /\ FinalDecision(x) # None
                                              /\ FinalDecision(x)[1] >= 1
                                              /\ Truthy(x.pmid)}}
        ELSE {r.pmid[1] : r \in {x \in arts : /\ \E d \in decs(x.id) : d >= 1
                                              /\ Truthy(x.pmid)}}

\* the response of export_secondary_candidates_txt (mode "disease")
ExportSecondaryCandidates(store, c, all_rows, group_no, has_final_decision) ==
    IF /\ group_no # None
       /\ ExportRefused(CheckGroupStatus(store, c, all_rows, group_no[1]))
    THEN [status_code |-> 400, pmids |-> {}]
    ELSE LET article_ids ==
                 IF group_no = None
                 THEN AllGroupsArticleIds(all_rows, YearMinOf(c))
                 ELSE GetGroupArticleIds(all_rows, YearMinOf(c), group_no[1])
         IN  [status_code |-> 200,
              pmids |-> CandidatePmids(store, all_rows, article_ids,
                                       has_final_decision)]

-----------------------------------------------------------------------------
(* SpecReports: submissions and settings changes, each as one step, with    *)
(* the progress pages and the exports called in between.                    *)

\* the Article table of SpecReports: nine rows with distinct sort keys,
\* sorted as 2, 5, 3, 1, 4, 6, 7, 8, 9.  With no threshold the groups are
\* [2,5,3], [1,4], [6,7], [8,9]; with 2015 they are [2], [5], [1], [4];
\* with 2021 only row 2 passes and the groups are [2], [], [], [].
ReportCorpus ==
    << [id |-> 1, authors |-> Some("Ito"),  pmid |-> Some(13), year |-> Some(2019)],
       [id |-> 2, authors |-> None,         pmid |-> Some(12), year |-> Some(2022)],
       [id |-> 3, authors |-> Some("Abe"),  pmid |-> Some(17), year |-> Some(2010)],
       [id |-> 4, authors |-> Some("Sato"), pmid |-> None,     year |-> Some(2019)],
       [id |-> 5, authors |-> Some("Abe"),  pmid |-> Some(11), year |-> Some(2018)] >>
    \o [i \in 1..4 |-> [id |-> 5 + i, authors |-> Some("Sato"),
                        pmid |-> Some(20 + i), year |-> Some(2012)]]

\* the forms posted in SpecReports
ReportForms ==
    LET m == CHOOSE x \in FormMetas : x.comment = ""
        n == CHOOSE x \in FormMetas : x.comment # ""
    IN  {Form(Some(0), m), Form(Some(1), n), Form(Some(2), m)}

\* the group_no query values of the exports
ExportGroups == {None, Some(1), Some(2)}

InitReports ==
    /\ articles = ReportCorpus
    /\ cfg = NoCfg
    /\ decisions = [p \in Pairs |-> <<>>]
    /\ ret = NoRet
    /\ nreq = 0
    /\ workers = NoWorkers
    /\ usernames = DefaultUsernames
    /\ scale_articles = <<>>
    /\ secondary_reviews = NoSecondaryReviews

\* GET /my_index?target_user_id=view_user
CallMyIndex(view_user) ==
    /\ ret' = [op |-> "my_index", view_user |-> view_user,
               val |-> MyIndex(decisions, cfg, articles, view_user)]
    /\ cfg' = CfgAfterGet(cfg)
    /\ UNCHANGED <<scale_articles, secondary_reviews, usernames, articles, decisions, nreq, workers>>

\* GET /dashboard by user u
CallDashboard(u) ==
    /\ ret' = [op |-> "dashboard", user |-> u,
               val |-> Dashboard(decisions, cfg, articles, u)]
    /\ cfg' = CfgAfterGet(cfg)
    /\ UNCHANGED <<scale_articles, secondary_reviews, usernames, articles, decisions, nreq, workers>>

\* GET /settings
CallSettingsPage ==
    /\ ret' = [op |-> "settings_page",
               val |-> SettingsPageValues(decisions, cfg, articles)]
    /\ cfg' = CfgAfterGet(cfg)
    /\ UNCHANGED <<scale_articles, secondary_reviews, usernames, articles, decisions, nreq, workers>>

\* GET /export_aggregated_disease by user u
CallExportAggregatedDisease(u, group_no) ==
    LET target_group == IF group_no # None THEN group_no[1] ELSE UserGroup[u]
    IN  /\ ret' = [op |-> "export_aggregated_disease",
                   target_group |-> target_group,
                   lines |-> ExportAggregatedDisease(decisions, cfg, articles,
                                                     target_group)]
        /\ cfg' = CfgAfterGet(cfg)
        /\ UNCHANGED <<scale_articles, secondary_reviews, usernames, articles, decisions, nreq, workers>>

\* GET /export_secondary_candidates?mode=disease on a database whose
\* article table has the final_decision column or not; check_group_status
\* of a group without users returns before get_year_min
CallExportSecondaryCandidates(group_no, has_final_decision) ==
    /\ ret' = [op |-> "export_secondary_candidates", group_no |-> group_no,
               has_final_decision |-> has_final_decision,
               val |-> ExportSecondaryCandidates(decisions, cfg, articles,
                                                 group_no, has_final_decision)]
    /\ cfg' = IF /\ group_no # None
                 /\ ~\E u \in Users : UserGroup[u] = group_no[1]
              THEN cfg ELSE CfgAfterGet(cfg)
    /\ UNCHANGED <<scale_articles, secondary_reviews, usernames, articles, decisions, nreq, workers>>

NextReports ==
    \/ \E u \in Users, article_id \in TargetIds, f \in ReportForms :
           nreq < MaxReportRequests /\ SubmitScreen(u, article_id, f)
    \/ \E u \in Users, year_min \in SettingsYearMins :
           nreq < MaxReportRequests /\ SettingsSubmit(u, year_min)
    \/ \E view_user \in Users : CallMyIndex(view_user)
    \/ \E u \in Users : CallDashboard(u)
    \/ CallSettingsPage
    \/ \E u \in Users, group_no \in ExportGroups :
           CallExportAggregatedDisease(u, group_no)
    \/ \E group_no \in ExportGroups, has_final_decision \in BOOLEAN :
           CallExportSecondaryCandidates(group_no, has_final_decision)
    \/ \E group_no \in 1..N_GROUPS : CallCheckGroupStatus(group_no)

SpecReports == InitReports /\ [][NextReports]_vars

\* the rows of record a in the store, as (user, position) slots
RowSlots(a) ==
    UNION { {<<u, i>> : i \in 1..Len(RowsOf(decisions, u, a))} : u \in Users }

\* the row in a slot of record a
SlotRow(a, slot) == RowsOf(decisions, slot[1], a)[slot[2]]

\* the number of rows of record a whose decision is k
CodeCount(a, k) ==
    Cardinality({slot \in RowSlots(a) : SlotRow(a, slot).decision = Some(k)})

IsAggregatedExport == ret.op = "export_aggregated_disease"

C14_CategoryFlags ==
    IsAggregatedExport
        => \A i \in 1..Len(ret.lines), c \in CatCols :
              LET a == ret.lines[i].article_id
                  set == \E slot \in RowSlots(a) : SlotRow(a, slot)[c]
                  unset == \E slot \in RowSlots(a) : ~SlotRow(a, slot)[c]
                  cat == ret.lines[i].cats[c]
              IN  /\ cat.final = IF set THEN 1 ELSE 0
                  /\ cat.conflict = IF set /\ unset THEN 1 ELSE 0

\* C14 witness: an exported record with two rows that differ on
\* cat_physical and both leave cat_brain unset.
C14_Witness ==
    /\ IsAggregatedExport
    /\ \E i \in 1..Len(ret.lines) :
          /\ Cardinality(RowSlots(ret.lines[i].article_id)) = 2
          /\ ret.lines[i].cats["cat_physical"] = [final |-> 1, conflict |-> 1]
          /\ ret.lines[i].cats["cat_brain"] = [final |-> 0, conflict |-> 0]

\* C19: export_aggregated_disease emits exactly one line for every record
\* assigned to the target group, in ascending order of record id, and the
\* line of a record without Decision rows has a null aggregated decision
\* and zero counts.
C19_OneLinePerRecord ==
    IsAggregatedExport
        => /\ {ret.lines[i].article_id : i \in 1..Len(ret.lines)}
                 = AssignedIds(ret.target_group)
           /\ \A i, j \in 1..Len(ret.lines) :
                 i < j => ret.lines[i].article_id < ret.lines[j].article_id
           /\ \A i \in 1..Len(ret.lines) :
                 RowSlots(ret.lines[i].article_id) = {}
                    => /\ ret.lines[i].aggregated_decision = None
                       /\ \A k \in Codes : ret.lines[i].decision_counts[k] = 0

\* C19 witness: an export of three records, of which the partition lists
\* the largest id second, one with Decision rows and one without.
C19_Witness ==
    /\ IsAggregatedExport
    /\ Len(ret.lines) = 3
    /\ GetGroupArticleIds(articles, YearMinOf(cfg), ret.target_group)[2]
          = ret.lines[3].article_id
    /\ \E i \in 1..3 : RowSlots(ret.lines[i].article_id) # {}
    /\ \E i \in 1..3 :
          /\ RowSlots(ret.lines[i].article_id) = {}
          /\ ret.lines[i].aggregated_decision = None

\* group g has reviewers and assigned records, and every reviewer has a
\* decision on every assigned record
GroupComplete(g) ==
    /\ Reviewers(g) # {}
    /\ AssignedIds(g) # {}
    /\ ~SomeoneUnfinished(g)

\* an assigned record of group g holds an adopt/exclude split with no hold
GroupHasConflicts(g) == \E a \in AssignedIds(g) : IsSplit(a)

IsCandidateExport == ret.op = "export_secondary_candidates"

\* C15: export_secondary_candidates_txt with a group_no answers with the
\* error and exports nothing whenever the group is not complete or has
\* conflicts, and with group_no omitted it never refuses.
C15_ExportGate ==
    IsCandidateExport
        => /\ ( /\ ret.group_no # None
                /\ \/ ~GroupComplete(ret.group_no[1])
                   \/ GroupHasConflicts(ret.group_no[1]) )
                 => ret.val = [status_code |-> 400, pmids |-> {}]
           /\ ret.group_no = None => ret.val.status_code = 200

\* C15 witness: the export of a complete group is refused because a record
\* holds an adopt/exclude split.
C15_Witness ==
    /\ IsCandidateExport
    /\ ret.group_no # None
    /\ GroupComplete(ret.group_no[1])
    /\ GroupHasConflicts(ret.group_no[1])
    /\ ret.val.status_code = 400

\* the aggregated decision of record a (highest count, larger code on
\* ties) is adopt or hold
AdoptOrHigher(a) ==
    \E k \in Codes :
        /\ k >= 1
        /\ CodeCount(a, k) > 0
        /\ \A j \in Codes : \/ CodeCount(a, j) < CodeCount(a, k)
                             \/ (CodeCount(a, j) = CodeCount(a, k) /\ j <= k)

\* C16: the candidate list of a complete, conflict-free group holds the
\* external id of an assigned record exactly when the aggregated decision
\* of the record is adopt or higher.
C16_CandidateList ==
    (IsCandidateExport /\ ret.group_no # None /\ ret.val.status_code = 200)
        => \A i \in 1..Len(articles) :
              ( /\ articles[i].id \in AssignedIds(ret.group_no[1])
                /\ Truthy(articles[i].pmid) )
                 => (articles[i].pmid[1] \in ret.val.pmids
                        <=> AdoptOrHigher(articles[i].id))

\* the number of rows of user u with a non-null decision whose record is
\* assigned to group g
DoneRows(u, g) ==
    Cardinality({slot \in UNION { {<<a, i>> :
                                     i \in 1..Len(RowsOf(decisions, u, a))} :
                                 a \in AssignedIds(g) } :
                    RowsOf(decisions, u, slot[1])[slot[2]].decision # None})

\* total and done of user u are those of the store and the threshold of
\* this state
ProgressCounts(u, done, total) ==
    /\ total = Cardinality(AssignedIds(UserGroup[u]))
    /\ done = DoneRows(u, UserGroup[u])

\* the dashboard row of every user has the counts of this state, and its
\* percentage is done/total*100, or 0 when total is 0
DashboardProgress ==
    ret.op = "dashboard"
        => \A u \in Users :
              LET row == ret.val.rows[u]
              IN  /\ ProgressCounts(u, row.dis_rated, row.dis_total)
                  /\ IF row.dis_total > 0
                     THEN row.dis_pct.num * row.dis_total
                              = row.dis_rated * 100 * row.dis_pct.den
                     ELSE row.dis_pct.num = 0

\* C17, as the code has it: the progress of a reviewer has total equal to
\* the size of the assigned set of the reviewer's group under the current
\* threshold and done equal to the number of the reviewer's rows with a
\* non-null decision on records of that set, whatever settings changes
\* and submissions came before; the percentage is done/total*100 on the
\* dashboard and its integer part on my_index when total > 0, and 0 when
\* total = 0.
C17_Progress ==
    /\ DashboardProgress
    /\ ret.op = "my_index"
         => /\ ProgressCounts(ret.view_user, ret.val.progress_done,
                              ret.val.progress_total)
            /\ ret.val.progress_pct =
                  IF ret.val.progress_total > 0
                  THEN (ret.val.progress_done * 100)
                           \div ret.val.progress_total
                  ELSE 0

\* C17 witness: after the threshold was removed, my_index shows one of
\* three assigned records done as 33 percent.
C17_Witness ==
    /\ ret.op = "my_index"
    /\ cfg = [present |-> TRUE, year_min |-> None]
    /\ ret.val = [progress_done |-> 1, progress_total |-> 3,
                  progress_pct |-> 33]
    /\ DoneRows(ret.view_user, UserGroup[ret.view_user]) = 1

\* C17, as stated: the percentage shown is done/total*100 when total > 0
\* and 0 when total = 0, on the dashboard and on my_index.
C17_ExactPercentage ==
    /\ DashboardProgress
    /\ ret.op = "my_index"
         => /\ ProgressCounts(ret.view_user, ret.val.progress_done,
                              ret.val.progress_total)
            /\ IF ret.val.progress_total > 0
               THEN ret.val.progress_pct * ret.val.progress_total
                        = ret.val.progress_done * 100
               ELSE ret.val.progress_pct = 0

\* C18: the Configuration is the one AppConfig row with id 1.  It changes
\* only when set_year_min stores the posted value (None included) or when
\* the first get_year_min on a store without the row creates it with 2015;
\* get_year_min returns the stored value, so the value of the most recent
\* set_year_min, or 2015 when it has just created the row.
C18_SingleConfiguration ==
    [][/\ cfg' # cfg
            => \/ /\ ret'.op = "settings_submit"
                  /\ cfg' = [present |-> TRUE, year_min |-> ret'.year_min]
               \/ /\ ~cfg.present
                  /\ cfg' = [present |-> TRUE, year_min |-> Some(2015)]
       /\ (ret'.op = "settings_submit" /\ nreq' # nreq)
            => cfg' = [present |-> TRUE, year_min |-> ret'.year_min]
       /\ ret'.op = "settings_page"
            => /\ ret'.val.year_min
                    = IF cfg.present THEN cfg.year_min ELSE Some(2015)
               /\ cfg' = [present |-> TRUE, year_min |-> ret'.val.year_min]]_vars

\* C18 witness: the settings page shows no threshold after set_year_min
\* stored None.
C18_Witness ==
    /\ ret.op = "settings_page"
    /\ ret.val.year_min = None
    /\ cfg = [present |-> TRUE, year_min |-> None]

\* C20: check_group_status returns (False, False) when no user has the
\* group number or when no record is assigned to the group.
C20_BenignStatus ==
    (/\ ret.op = "check_group_status"
     /\ \/ Reviewers(ret.group_no) = {}
        \/ AssignedIds(ret.group_no) = {})
        => ret.val = <<FALSE, FALSE>>

\* C20 witness: the status of a group that has a reviewer and, under the
\* stored threshold, no assigned record, while decisions are stored.
C20_Witness ==
    /\ ret.op = "check_group_status"
    /\ Reviewers(ret.group_no) # {}
    /\ AssignedIds(ret.group_no) = {}
    /\ ret.val = <<FALSE, FALSE>>
    /\ \E p \in Pairs : decisions[p] # <<>>

\* C29: a row that has a decision code keeps having one: no step removes
\* the row or sets its code to null, a submission that omits the code
\* leaves the stored code as it is, no row is inserted without a code, and
\* resolve_conflict writes its code into the rows; so, while the year
\* threshold stays the same, no reviewer's done count for any group
\* decreases.
C29_CodeNeverNull ==
    [][/\ \A p \in Pairs :
            /\ \A i \in 1..Len(decisions[p]) :
                   decisions[p][i].decision # None
                     => /\ i <= Len(decisions'[p])
                        /\ decisions'[p][i].decision # None
            /\ \A i \in (Len(decisions[p]) + 1)..Len(decisions'[p]) :
                   decisions'[p][i].decision # None
       /\ \A w \in DOMAIN workers :
            (IsWriteStep(w) /\ workers[w].form.decision = None
                            /\ workers[w].existing # 0)
              => LET p == <<workers[w].user, workers[w].article_id>>
                 IN  decisions'[p][workers[w].existing].decision
                        = decisions[p][workers[w].existing].decision
       /\ (ret'.op = "resolve_conflict" /\ nreq' = nreq + 1)
            => \A u \in Users :
                   \A i \in 1..Len(decisions'[<<u, ret'.article_id>>]) :
                       decisions'[<<u, ret'.article_id>>][i].decision
                           = Some(ret'.resolution)
       /\ (YearMinOf(cfg') = YearMinOf(cfg) /\ decisions' # decisions)
            => LET lists == GroupLists(articles, YearMinOf(cfg))
               IN  \A u \in Users, g \in 1..N_GROUPS :
                       DoneCount(decisions', u, lists[g])
                           >= DoneCount(decisions, u, lists[g])]_vars

\* C29 witness: a resubmission without a code has been written over a row
\* that a resolve_conflict had set to hold; the row still holds and the
\* reviewer's done count is 1.
C29_Witness ==
    /\ ret.op = "submit_screen"
    /\ ret.existing
    /\ ret.form.decision = None
    /\ nreq = 3
    /\ Len(decisions[<<ret.user, ret.article_id>>]) = 1
    /\ decisions[<<ret.user, ret.article_id>>][1].decision = Some(2)
    /\ MyIndex(decisions, cfg, articles, ret.user).progress_done = 1

\* C30: for every reviewer and every group, the done count is between 0
\* and the number of records assigned to the group, and the percentage
\* shown is at most 100.
C30_DoneAtMostTotal ==
    LET lists == GroupLists(articles, YearMinOf(cfg))
    IN  \A u \in Users, g \in 1..N_GROUPS :
            LET total == Len(lists[g])
                done == IF lists[g] # <<>> THEN DoneCount(decisions, u, lists[g])
                        ELSE 0
            IN  /\ 0 <= done
                /\ done <= total
                /\ total > 0 => (done * 100) \div total <= 100

-----------------------------------------------------------------------------
(* SpecConflicts: the conflicts page beside the requests that change what   *)
(* it shows: submissions, and the renaming of a user by an admin.           *)

\* the other username an admin gives to a user in POST /admin/users/update
UnderscoredUsernames == (1 :> "_user1") @@ (2 :> "_user2") @@ (3 :> "_user3")

\* the usernames posted for user_id
PostedUsernames(user_id) ==
    {DefaultUsernames[user_id], UnderscoredUsernames[user_id]}

\* k.startswith('_') on the usernames above
StartsWithUnderscore(k) == k \in {UnderscoredUsernames[u] : u \in Users}

\* conflicts_page: vals = [v for k, v in votes.items() if not
\* k.startswith('_')], votes being art_map[aid], which holds the decision
\* under the username and the comment under '_comment_' + username
ConflictVals(store, names, aid) ==
    {DecisionMapAt(store, u, aid) :
        u \in {v \in Users : /\ InDecisionMap(store, v, aid)
                             /\ ~StartsWithUnderscore(names[v])}}

\* conflicts_page (mode "disease"): the ids in conflicts_list.  Their
\* order is that of the SELECT on ScreeningDecision, which has no ORDER BY,
\* so the list is kept as a set.
ConflictsList(store, c, all_rows, names, group_no) ==
    LET status == CheckGroupStatus(store, c, all_rows, group_no)
        article_ids == GetGroupArticleIds(all_rows, YearMinOf(c), group_no)
    IN  IF ~status[1] THEN {}
        ELSE {article_ids[i] : i \in {j \in 1..Len(article_ids) :
                 VotesConflict(ConflictVals(store, names, article_ids[j]))}}

\* the forms submitted in SpecConflicts: each code, one set of other fields
ConflictForms ==
    {Form(Some(d), CHOOSE m \in FormMetas : m.comment = "") : d \in Codes}

\* POST /admin/users/update by current_user for user_id, the posted
\* group_no and is_admin being the stored ones: the username is replaced
AdminUserUpdate(current_user, user_id, username) ==
    /\ nreq < MaxConflictRequests
    /\ UserIsAdmin[current_user]
    /\ usernames' = [usernames EXCEPT ![user_id] = username]
    /\ ret' = [op |-> "admin_user_update", user_id |-> user_id,
               username |-> username]
    /\ nreq' = nreq + 1
    /\ UNCHANGED <<scale_articles, secondary_reviews, articles, cfg, decisions, workers>>

\* GET /conflicts?mode=disease by user u, group_no given or not
CallConflictsPage(u, group_no) ==
    LET target == IF group_no = None THEN UserGroup[u] ELSE group_no[1]
        status == CheckGroupStatus(decisions, cfg, articles, target)
    IN  /\ ret' = [op |-> "conflicts_page", target_group_no |-> target,
                   is_complete |-> status[1],
                   conflicts |-> ConflictsList(decisions, cfg, articles,
                                               usernames, target)]
        /\ cfg' = IF \E v \in Users : UserGroup[v] = target
                  THEN CfgAfterGet(cfg) ELSE cfg
        /\ UNCHANGED <<scale_articles, secondary_reviews, articles, decisions, nreq, workers, usernames>>

NextConflicts ==
    \/ \E u \in Users, article_id \in TargetIds, f \in ConflictForms :
           nreq < MaxConflictRequests /\ SubmitScreen(u, article_id, f)
    \/ \E current_user \in Users, user_id \in Users :
           \E username \in PostedUsernames(user_id) :
               AdminUserUpdate(current_user, user_id, username)
    \/ \E u \in Users, group_no \in {None} \cup {Some(g) : g \in 1..N_GROUPS} :
           CallConflictsPage(u, group_no)

SpecConflicts == Init /\ [][NextConflicts]_vars

\* C24: conflicts_page lists nothing for a group that check_group_status
\* does not report complete; for a complete group it lists exactly the
\* assigned records that hold an adopt/exclude split with no hold, and so
\* lists something exactly when check_group_status reports has_conflicts.
C24_ConflictsPage ==
    ret.op = "conflicts_page" =>
        LET g == ret.target_group_no
            status == CheckGroupStatus(decisions, cfg, articles, g)
        IN  /\ ~status[1] => ret.conflicts = {}
            /\ status[1] => ret.conflicts = {a \in AssignedIds(g) : IsSplit(a)}
            /\ (ret.conflicts # {}) <=> status[2]

-----------------------------------------------------------------------------
(* SpecScale: get_group_scale_article_ids applied to every small            *)
(* ScaleArticle table.                                                      *)

\* the sort of the fallback, key (pmid or 0), stable
RECURSIVE InsertByPmid(_, _)
InsertByPmid(sorted, r) ==
    IF sorted = <<>> THEN <<r>>
    ELSE IF OrElse(r.pmid, 0) < OrElse(Head(sorted).pmid, 0)
         THEN <<r>> \o sorted
         ELSE <<Head(sorted)>> \o InsertByPmid(Tail(sorted), r)

RECURSIVE SortByPmid(_)
SortByPmid(rows) ==
    IF rows = <<>> THEN <<>>
    ELSE InsertByPmid(SortByPmid(SubSeq(rows, 1, Len(rows) - 1)), rows[Len(rows)])

\* get_group_scale_article_ids(session, user_group_no): the ids of the rows
\* with that group_no in id order when there are any, else the slice of
\* all rows sorted by pmid; table is in id order and all_rows is what the
\* second SELECT, which has no ORDER BY, returned
GetGroupScaleArticleIds(table, all_rows, user_group_no) ==
    LET rows == SelectSeq(table, LAMBDA r : r.group_no = user_group_no)
    IN  IF rows # <<>> THEN [i \in 1..Len(rows) |-> rows[i].id]
        ELSE IF all_rows = <<>> THEN <<>>
        ELSE GroupSlice(SortByPmid(all_rows), user_group_no)

\* the (pmid, group_no) combinations the ScaleArticle rows are drawn from
ScaleKinds ==
    { [pmid |-> pm, group_no |-> g] : pm \in {None, Some(5), Some(7)},
                                      g \in {1, 2} }

InitScale ==
    /\ \E n \in 0..MaxScaleArticles :
         \E kinds \in [1..n -> ScaleKinds] :
             scale_articles = [i \in 1..n |->
                 [id |-> i, pmid |-> kinds[i].pmid, group_no |-> kinds[i].group_no]]
    /\ articles = <<>>
    /\ cfg = NoCfg
    /\ decisions = [p \in Pairs |-> <<>>]
    /\ ret = NoRet
    /\ nreq = 0
    /\ workers = NoWorkers
    /\ usernames = DefaultUsernames
    /\ secondary_reviews = NoSecondaryReviews

\* get_group_scale_article_ids called once for every group number, each
\* call with the row order the store chose for it
CallGetGroupScaleArticleIds ==
    /\ \E orders \in [1..N_GROUPS -> StoreOrders(scale_articles)] :
         ret' = [op |-> "get_group_scale_article_ids",
                 ids |-> [g \in 1..N_GROUPS |->
                     GetGroupScaleArticleIds(scale_articles, orders[g], g)]]
    /\ UNCHANGED <<articles, cfg, decisions, nreq, workers, usernames,
                   scale_articles, secondary_reviews>>

NextScale == CallGetGroupScaleArticleIds

SpecScale == InitScale /\ [][NextScale]_vars

\* C25: the lists get_group_scale_article_ids returns for two different
\* group numbers have no id in common, whatever group_no the ScaleArticle
\* rows carry.
C25_ScaleDisjoint ==
    ret.op = "get_group_scale_article_ids" =>
        \A g1, g2 \in 1..N_GROUPS :
            g1 # g2 =>
                {ret.ids[g1][i] : i \in 1..Len(ret.ids[g1])}
                    \cap {ret.ids[g2][i] : i \in 1..Len(ret.ids[g2])} = {}

-----------------------------------------------------------------------------
(* SpecSecondary: the SecondaryReview table under secondary_review_page and *)
(* secondary_save, each handled on one of two threads in two steps (its     *)
(* SELECT, then its write and commit), and under create_reviews_for_pmids.  *)
(* The SecondaryArticle with pmid 101 is in group "physical".               *)

\* the decisions posted to secondary_save
SecondaryDecisions == {"pending", "include", "exclude"}

\* GET /secondary/{group}/{pmid} by user u, first step: the SELECT of the
\* review of (pmid, group, u), .first() of the rows it finds
SecondaryPageRead(w, u, k) ==
    /\ nreq < MaxSecondaryRequests
    /\ workers[w].pc = "idle"
    /\ k[3] = u
    /\ \E found \in ExistingChoices(secondary_reviews[k]) :
         workers' = [workers EXCEPT ![w] =
                        [pc |-> "page_write", key |-> k, found |-> found]]
    /\ nreq' = nreq + 1
    /\ UNCHANGED <<articles, cfg, decisions, ret, usernames, scale_articles,
                   secondary_reviews>>

\* second step: an admin without a review gets a pending one
SecondaryPageWrite(w) ==
    /\ workers[w].pc = "page_write"
    /\ LET me == workers[w]
       IN  /\ secondary_reviews' =
                  IF me.found = 0 /\ UserIsAdmin[me.key[3]]
                  THEN [secondary_reviews EXCEPT ![me.key] =
                           Append(@, [decision |-> "pending"])]
                  ELSE secondary_reviews
           /\ ret' = [op |-> "secondary_review_page", key |-> me.key,
                      created |-> (me.found = 0 /\ UserIsAdmin[me.key[3]])]
    /\ workers' = [workers EXCEPT ![w] = [pc |-> "idle"]]
    /\ UNCHANGED <<articles, cfg, decisions, nreq, usernames, scale_articles>>

\* POST /secondary/{group}/{pmid}/save by user u, first step: the SELECT
SecondarySaveRead(w, u, k, decision) ==
    /\ nreq < MaxSecondaryRequests
    /\ workers[w].pc = "idle"
    /\ k[3] = u
    /\ \E found \in ExistingChoices(secondary_reviews[k]) :
         workers' = [workers EXCEPT ![w] =
                        [pc |-> "save_write", key |-> k, found |-> found,
                         decision |-> decision]]
    /\ nreq' = nreq + 1
    /\ UNCHANGED <<articles, cfg, decisions, ret, usernames, scale_articles,
                   secondary_reviews>>

\* second step: the row found is updated; an admin without one inserts a
\* row; anyone else is redirected
SecondarySaveWrite(w) ==
    /\ workers[w].pc = "save_write"
    /\ LET me == workers[w]
       IN  /\ secondary_reviews' =
                  IF me.found # 0
                  THEN [secondary_reviews EXCEPT ![me.key][me.found] =
                           [decision |-> me.decision]]
                  ELSE IF UserIsAdmin[me.key[3]]
                  THEN [secondary_reviews EXCEPT ![me.key] =
                           Append(@, [decision |-> me.decision])]
                  ELSE secondary_reviews
           /\ ret' = [op |-> "secondary_save", key |-> me.key,
                      created |-> (me.found = 0 /\ UserIsAdmin[me.key[3]])]
    /\ workers' = [workers EXCEPT ![w] = [pc |-> "idle"]]
    /\ UNCHANGED <<articles, cfg, decisions, nreq, usernames, scale_articles>>

\* create_reviews_for_pmids([101]) of the import script, run while no
\* request is between its steps: a pending review for each of the first
\* two users of group 1 ("physical") who has none
CreateReviewsForPmids ==
    /\ nreq < MaxSecondaryRequests
    /\ \A w \in DOMAIN workers : workers[w].pc = "idle"
    /\ secondary_reviews' =
          [k \in SecondaryKeys |->
              IF UserGroup[k[3]] = 1 /\ k[3] \in {1, 2}
                                    /\ secondary_reviews[k] = <<>>
              THEN <<[decision |-> "pending"]>>
              ELSE secondary_reviews[k]]
    /\ ret' = [op |-> "create_reviews_for_pmids"]
    /\ nreq' = nreq + 1
    /\ UNCHANGED <<articles, cfg, decisions, workers, usernames, scale_articles>>

NextSecondary ==
    \/ \E w \in DOMAIN workers, u \in Users, k \in SecondaryKeys :
           SecondaryPageRead(w, u, k)
    \/ \E w \in DOMAIN workers : SecondaryPageWrite(w)
    \/ \E w \in DOMAIN workers, u \in Users, k \in SecondaryKeys :
           \E decision \in SecondaryDecisions : SecondarySaveRead(w, u, k, decision)
    \/ \E w \in DOMAIN workers : SecondarySaveWrite(w)
    \/ CreateReviewsForPmids

SpecSecondary == Init /\ [][NextSecondary]_vars

\* C26: the SecondaryReview table never holds two rows for one (pmid,
\* group, reviewer), also when two requests of one admin for the same
\* (pmid, group) interleave.
C26_SecondaryReviewUnique ==
    \A k \in SecondaryKeys : Len(secondary_reviews[k]) <= 1

-----------------------------------------------------------------------------
(* SpecResolve: resolve_conflict and check_group_status on every store      *)
(* that submissions can have built, with no year threshold, so that group   *)
(* 1 (users 1 and 2) is assigned the records 2 and 5 and user 3 is an       *)
(* outsider to it.                                                          *)

\* the row a submission with code d leaves
SubmittedRow(d) == Form(Some(d), CHOOSE m \in FormMetas : m.comment = "")

InitResolve ==
    /\ articles = Corpus
    /\ cfg = [present |-> TRUE, year_min |-> None]
    /\ decisions \in [Pairs -> {<<>>} \cup {<<SubmittedRow(d)>> : d \in Codes}]
    /\ ret = NoRet
    /\ nreq = 0
    /\ workers = NoWorkers
    /\ usernames = DefaultUsernames
    /\ scale_articles = <<>>
    /\ secondary_reviews = NoSecondaryReviews

NextResolve ==
    \/ \E article_id \in TargetIds, resolution \in Codes :
           nreq < MaxResolveRequests /\ ResolveConflict(article_id, resolution)
    \/ \E group_no \in 1..N_GROUPS : CallCheckGroupStatus(group_no)

SpecResolve == InitResolve /\ [][NextResolve]_vars

\* the codes stored for record a, by anyone, in a given store
CodesIn(store, a) ==
    UNION { {RowsOf(store, u, a)[i].decision[1] :
                i \in {j \in 1..Len(RowsOf(store, u, a)) :
                           RowsOf(store, u, a)[j].decision # None}} :
            u \in Users }

\* the records assigned to g that hold an adopt/exclude split with no hold
\* in a given store
ConflictingIn(store, g) ==
    {a \in AssignedIds(g) :
        2 \notin CodesIn(store, a) /\ 1 \in CodesIn(store, a)
                                  /\ 0 \in CodesIn(store, a)}

\* C27: a resolve_conflict on a conflicting record of a group whose status
\* is (True, True) leaves the group complete and with strictly fewer
\* conflicting records, and with status (True, False) once none is left.
C27_ResolveProgress ==
    [][\A g \in 1..N_GROUPS :
          ( /\ ret'.op = "resolve_conflict"
            /\ nreq' = nreq + 1
            /\ CheckGroupStatus(decisions, cfg, articles, g) = <<TRUE, TRUE>>
            /\ ret'.article_id \in ConflictingIn(decisions, g) )
          => /\ CheckGroupStatus(decisions', cfg', articles', g)[1]
             /\ Cardinality(ConflictingIn(decisions', g))
                    < Cardinality(ConflictingIn(decisions, g))
             /\ ConflictingIn(decisions', g) = {}
                    => CheckGroupStatus(decisions', cfg', articles', g)
                           = <<TRUE, FALSE>>]_vars

\* C27 witness: group 1 had two conflicting records and each has been
\* resolved once; none is left.
C27_Witness ==
    /\ nreq = 2
    /\ ret.op = "resolve_conflict"
    /\ \A a \in AssignedIds(1) : Cardinality(CodesIn(decisions, a)) = 1
    /\ CodesIn(decisions, 2) # CodesIn(decisions, 5)
    /\ CheckGroupStatus(decisions, cfg, articles, 1) = <<TRUE, FALSE>>
    /\ \A a \in AssignedIds(1) : \A u \in Users : RowsOf(decisions, u, a) # <<>>

\* the codes stored for record a by the users of group g, and by the others
MemberCodes(g, a) ==
    {RowsOf(decisions, u, a)[1].decision[1] :
        u \in {v \in Reviewers(g) : HasDecision(v, a)}}

OutsiderCodes(g, a) ==
    {RowsOf(decisions, u, a)[1].decision[1] :
        u \in {v \in Users \ Reviewers(g) : HasDecision(v, a)}}

\* C28: check_group_status(g) reports g complete exactly when its own
\* users have decided every assigned record, whatever the other users have
\* done; for a complete group a hold by an outsider on every record the
\* members split on gives no conflict, and an outsider's opposing vote on
\* a record the members agree on gives a conflict.
C28_OutsiderVotes ==
    ( /\ ret.op = "check_group_status"
      /\ Reviewers(ret.group_no) # {}
      /\ AssignedIds(ret.group_no) # {} )
    => LET g == ret.group_no
       IN  /\ ret.val[1] = (\A u \in Reviewers(g), a \in AssignedIds(g) :
                                HasDecision(u, a))
           /\ ( /\ ret.val[1]
                /\ \A a \in AssignedIds(g) : 2 \in OutsiderCodes(g, a) )
              => ~ret.val[2]
           /\ ( /\ ret.val[1]
                /\ \E a \in AssignedIds(g) :
                       \/ MemberCodes(g, a) = {1} /\ OutsiderCodes(g, a) = {0}
                       \/ MemberCodes(g, a) = {0} /\ OutsiderCodes(g, a) = {1} )
              => ret.val[2]

\* C28 witness: the members of group 1 split on record 2 and agree on
\* record 5, the outsider holds record 2, and the status is (True, False).
C28_Witness ==
    /\ ret.op = "check_group_status"
    /\ ret.group_no = 1
    /\ MemberCodes(1, 2) = {0, 1}
    /\ OutsiderCodes(1, 2) = {2}
    /\ Cardinality(MemberCodes(1, 5)) = 1
    /\ OutsiderCodes(1, 5) = {}
    /\ ret.val = <<TRUE, FALSE>>

-----------------------------------------------------------------------------
(* SpecPartition: the partitioner applied to every small Article table.     *)

\* the (authors, pmid, year) combinations the Article rows are drawn from
ArticleKinds ==
    { [authors |-> None,         pmid |-> None,    year |-> None],
      [authors |-> Some("Abe"),  pmid |-> Some(3), year |-> Some(2010)],
      [authors |-> Some("Abe"),  pmid |-> None,    year |-> Some(2020)],
      [authors |-> Some("Sato"), pmid |-> Some(1), year |-> Some(2020)] }

\* the year thresholds passed to the partitioner
YearMins == {None, Some(2015), Some(2030)}

ArticleRow(i, k) ==
    [id |-> i, authors |-> k.authors, pmid |-> k.pmid, year |-> k.year]

InitPartition ==
    /\ \E n \in 0..MaxArticles :
         \E kinds \in [1..n -> ArticleKinds] :
             articles = [i \in 1..n |-> ArticleRow(i, kinds[i])]
    /\ cfg = NoCfg
    /\ decisions = [p \in Pairs |-> <<>>]
    /\ ret = NoRet
    /\ nreq = 0
    /\ workers = NoWorkers
    /\ usernames = DefaultUsernames
    /\ scale_articles = <<>>
    /\ secondary_reviews = NoSecondaryReviews

\* get_group_article_ids(session, year_min, g) applied to the rows the
\* store returned, tabulated for every group number g
CallGetGroupArticleIds(year_min) ==
    /\ \E all_rows \in StoreOrders(articles) :
         ret' = [op |-> "get_group_article_ids",
                 all_rows |-> all_rows,
                 year_min |-> year_min,
                 ids |-> GroupLists(all_rows, year_min)]
    /\ UNCHANGED <<scale_articles, secondary_reviews, usernames, articles, cfg, decisions, nreq, workers>>

NextPartition ==
    \E year_min \in YearMins : CallGetGroupArticleIds(year_min)

SpecPartition == InitPartition /\ [][NextPartition]_vars

-----------------------------------------------------------------------------
(* Properties of the partitioner, checked under SpecPartition.              *)

Range(seq) == {seq[i] : i \in 1..Len(seq)}

IdsOf(rows) == {rows[i].id : i \in 1..Len(rows)}

IsPartitionCall == ret.op = "get_group_article_ids"

\* C1: for every Article table and every year threshold, each of the
\* N_GROUPS lists returned by get_group_article_ids has floor(n'/g) or
\* ceil(n'/g) entries, n' being the number of rows left by the year filter.
C1_PartitionBalance ==
    IsPartitionCall =>
        LET n == Len(SurvivingRows(ret.all_rows, ret.year_min))
        IN  \A g \in 1..N_GROUPS :
                Len(ret.ids[g])
                    \in {n \div N_GROUPS, (n + N_GROUPS - 1) \div N_GROUPS}

\* C1 witness: five rows were partitioned into a group of two and three
\* groups of one.
C1_Witness ==
    /\ IsPartitionCall
    /\ Len(SurvivingRows(ret.all_rows, ret.year_min)) = 5
    /\ Len(ret.ids[1]) = 2
    /\ Len(ret.ids[N_GROUPS]) = 1

C3_PartitionDeterministic ==
    [][ ( /\ IsPartitionCall
          /\ ret'.op = "get_group_article_ids"
          /\ ret'.year_min = ret.year_min
          /\ Range(ret'.all_rows) = Range(ret.all_rows) )
        => ret'.ids = ret.ids ]_vars

\* C4: a threshold that no row passes gives, for every group, what no
\* threshold gives on the same rows.
C4_PartitionFallback ==
    ( /\ IsPartitionCall
      /\ ret.year_min # None
      /\ \A i \in 1..Len(ret.all_rows) : ~YearOk(ret.all_rows[i], ret.year_min) )
    => \A g \in 1..N_GROUPS :
           ret.ids[g] = GetGroupArticleIds(ret.all_rows, None, g)

\* C4 witness: no row passes the threshold of the call, and it returned
\* a non-empty group.
C4_Witness ==
    /\ IsPartitionCall
    /\ ret.year_min # None
    /\ \A i \in 1..Len(ret.all_rows) : ~YearOk(ret.all_rows[i], ret.year_min)
    /\ ret.ids[1] # <<>>

\* the group lists of the call one after the other: the order in which
\* the call has laid out the surviving rows
ReturnedOrder == ret.ids[1] \o ret.ids[2] \o ret.ids[3] \o ret.ids[4]

\* C21: the row at 0-indexed position i of the n sorted surviving rows is
\* returned for group (i * N_GROUPS) \div n + 1; along the sort order the
\* group number never decreases, and the lists of groups 1..N_GROUPS laid
\* end to end are the sorted rows, so that each group holds one contiguous
\* range of them.
C21_ContiguousRanges ==
    IsPartitionCall =>
        LET rows == PartitionedRows(ret.all_rows, ret.year_min)
            n == Len(rows)
            grp(id) == CHOOSE g \in 1..N_GROUPS : id \in Range(ret.ids[g])
        IN  /\ \A i \in 0..(n - 1) :
                   rows[i + 1].id \in Range(ret.ids[(i * 4) \div n + 1])
            /\ \A i, j \in 1..n :
                   i < j => grp(rows[i].id) <= grp(rows[j].id)
            /\ ReturnedOrder = [i \in 1..n |-> rows[i].id]

\* C21 witness: five sorted rows that are not in id order went to groups
\* of sizes 2, 1, 1, 1.
C21_Witness ==
    /\ IsPartitionCall
    /\ Len(ReturnedOrder) = 5
    /\ Len(ret.ids[1]) = 2
    /\ Len(ret.ids[2]) = 1
    /\ ret.ids[1][1] > ret.ids[2][1]

\* C22: on an empty Article table get_group_article_ids returns the empty
\* list for every group number, whatever the threshold.
C22_EmptyTable ==
    (IsPartitionCall /\ articles = <<>>)
        => \A g \in 1..N_GROUPS : ret.ids[g] = <<>>

\* C22 witness: the call was made on the empty table with a threshold.
C22_Witness ==
    /\ IsPartitionCall
    /\ articles = <<>>
    /\ ret.all_rows = <<>>
    /\ ret.year_min = Some(2015)
    /\ ret.ids = [g \in 1..N_GROUPS |-> <<>>]

\* the row of the call with the given id
ReturnedRow(id) == CHOOSE r \in Range(ret.all_rows) : r.id = id

\* the sort key with the defaults written out: no authors counts as the
\* empty string, no pmid as 0
DefaultedKey(r) ==
    << IF r.authors = None THEN "" ELSE r.authors[1],
       IF r.pmid = None THEN 0 ELSE r.pmid[1] >>

\* C23: rows without authors or without pmid are partitioned like the
\* others: every surviving row is returned for some group, the returned
\* order is ascending in (authors or "", pmid or 0), and so a row without
\* authors is never behind a row that has authors.
C23_MissingSortKeys ==
    IsPartitionCall =>
        /\ Range(ReturnedOrder)
               = IdsOf(SurvivingRows(ret.all_rows, ret.year_min))
        /\ \A i, j \in 1..Len(ReturnedOrder) :
               i < j =>
                   LET a == ReturnedRow(ReturnedOrder[i])
                       b == ReturnedRow(ReturnedOrder[j])
                   IN  /\ ~KeyLess(DefaultedKey(b), DefaultedKey(a))
                       /\ b.authors = None => a.authors = None

\* C23 witness: the store returned a row with authors first and a row
\* with neither authors nor pmid later, and the call returned the latter
\* first.
C23_Witness ==
    /\ IsPartitionCall
    /\ Len(ret.all_rows) >= 3
    /\ ret.all_rows[1].authors # None
    /\ ret.ids[1] # <<>>
    /\ ReturnedRow(ret.ids[1][1]).authors = None
    /\ ReturnedRow(ret.ids[1][1]).pmid = None
    /\ ReturnedRow(ret.ids[1][1]).id > 1

=============================================================================
